---------------------------- MODULE Spec2Model ----------------------------
(***************************************************************************)
(* Model of the disk analyzer: the scanning engine of disk_analyzer.py     *)
(* (get_folder_size, analyze_directory) over an abstract filesystem, and   *)
(* the navigation state of the window of disk_analyzer_gui.py.             *)
(*                                                                         *)
(* A path is a sequence of names (natural numbers); the directory that is  *)
(* analysed is Root == <<>>.  The filesystem fs maps every existing path   *)
(* to a node.  A listing yields the children of a directory in name order. *)
(***************************************************************************)
EXTENDS Integers, Sequences, FiniteSets, TLC

VARIABLES
    fs,        \* the filesystem: path -> node
    pc,        \* where the call is: "build" before it, "done" after it
    op,        \* the call made: "analyze" or "size"
    result,    \* what the call returned or raised
    listing,   \* stepwise scan: the top-level entries still to process
    items,     \* stepwise scan: the entries collected so far
    stack,     \* stepwise scan: the frames of get_folder_size
    observed,  \* stepwise scan: the bytes stat() has reported so far
    envSteps,  \* modifications made by other processes
    current_path,     \* window: the directory shown, <<>> for ""
    path_history,     \* window: the directories entered, oldest first
    path_lineedit,    \* window: the text of the path field
    rows,             \* window: the rows of source_model
    drive_index,      \* window: currentIndex of drive_combobox
    combo_enabled,    \* window: drive_combobox.isEnabled()
    refresh_enabled,  \* window: refresh_button.isEnabled()
    up_enabled,       \* window: up_button.isEnabled()
    workers           \* window: the analysis threads that have not finished

vars == <<fs, pc, op, result, listing, items, stack, observed, envSteps,
          current_path, path_history, path_lineedit, rows, drive_index,
          combo_enabled, refresh_enabled, up_enabled, workers>>

scanVars == <<listing, items, stack, observed, envSteps>>

guiVars == <<current_path, path_history, path_lineedit, rows, drive_index,
             combo_enabled, refresh_enabled, up_enabled, workers>>

(***************************************************************************)
(* Bounds of the model.                                                    *)
(***************************************************************************)
MaxNodes == 3        \* nodes below Root
MaxSize == 2         \* largest file size, in bytes
MaxFailAt == 1       \* a failing listing yields at most this many entries first
MaxSortLen == 4      \* entries of the directories whose analysis is sorted
MaxEnvSteps == 2     \* modifications by other processes during one run
MaxWorkers == 2      \* analysis threads alive at the same time

(***************************************************************************)
(* The filesystem as the os module shows it.                               *)
(*   typeErr: what DirEntry.is_file()/is_dir() raises ("none": nothing)    *)
(*   statErr: what DirEntry.stat() raises                                  *)
(*   listErr: what os.scandir raises on the directory, after it has        *)
(*            yielded failAt entries (0: on opening it)                    *)
(* "perm" is PermissionError, "os" any other OSError.                      *)
(***************************************************************************)
Root == <<>>

ErrKinds == {"perm", "os"}

FileNode(s, se) ==
    [kind |-> "file", size |-> s, typeErr |-> "none", statErr |-> se,
     listErr |-> "none", failAt |-> 0]

DirNode(le, k) ==
    [kind |-> "dir", size |-> 0, typeErr |-> "none", statErr |-> "none",
     listErr |-> le, failAt |-> k]

\* neither file nor directory (a device, a socket); stat() gives it a size
OtherNode ==
    [kind |-> "other", size |-> 1, typeErr |-> "none", statErr |-> "none",
     listErr |-> "none", failAt |-> 0]

UntypableNode(te) ==
    [kind |-> "other", size |-> 0, typeErr |-> te, statErr |-> te,
     listErr |-> "none", failAt |-> 0]

DirNodes ==
    {DirNode("none", 0)} \cup {DirNode(le, k) : le \in ErrKinds, k \in 0..MaxFailAt}

Nodes ==
    {FileNode(s, "none") : s \in 1..MaxSize}
        \cup {FileNode(1, se) : se \in ErrKinds}
        \cup {OtherNode}
        \cup {UntypableNode(te) : te \in ErrKinds}
        \cup DirNodes

IsPrefix(p, q) == Len(p) <= Len(q) /\ SubSeq(q, 1, Len(p)) = p

Children(f, p) == {q \in DOMAIN f : Len(q) = Len(p) + 1 /\ IsPrefix(p, q)}

\* p and everything beneath it
Under(f, p) == {q \in DOMAIN f : IsPrefix(p, q)}

Last(q) == q[Len(q)]

\* the children of p in name order
RECURSIVE InOrder(_)
InOrder(S) ==
    IF S = {} THEN <<>>
    ELSE LET m == CHOOSE q \in S : \A r \in S : Last(q) <= Last(r)
         IN <<m>> \o InOrder(S \ {m})

Min(a, b) == IF a < b THEN a ELSE b

\* os.scandir(p): the entries it yields and the error that ends the iteration
Scandir(f, p) ==
    IF p \notin DOMAIN f THEN [entries |-> <<>>, err |-> "os"]
    ELSE IF f[p].kind # "dir" THEN [entries |-> <<>>, err |-> "os"]
    ELSE LET all == InOrder(Children(f, p))
         IN IF f[p].listErr = "none" THEN [entries |-> all, err |-> "none"]
            ELSE [entries |-> SubSeq(all, 1, Min(f[p].failAt, Len(all))),
                  err |-> f[p].listErr]

(***************************************************************************)
(* get_folder_size: the loop over the entries of one listing.  An OSError  *)
(* of is_file()/is_dir() leaves the loop through the outer handler and the *)
(* total so far is returned; an OSError of stat() skips the file; the      *)
(* error that ends the listing is swallowed by the same outer handler.     *)
(***************************************************************************)
\* the loop with the recursion into subdirectories left out
RECURSIVE SizeLoopNoRecursion(_, _, _)
SizeLoopNoRecursion(f, es, total) ==
    IF es = <<>> THEN total
    ELSE LET e == Head(es) IN
         IF f[e].typeErr # "none" THEN total
         ELSE IF f[e].kind = "file"
              THEN SizeLoopNoRecursion(f, Tail(es),
                            IF f[e].statErr # "none" THEN total ELSE total + f[e].size)
         ELSE SizeLoopNoRecursion(f, Tail(es), total)

RECURSIVE get_folder_size(_, _), SizeLoop(_, _, _)
SizeLoop(f, es, total) ==
    IF es = <<>> THEN total
    ELSE LET e == Head(es) IN
         IF f[e].typeErr # "none" THEN total
         ELSE IF f[e].kind = "file"
              THEN SizeLoop(f, Tail(es),
                            IF f[e].statErr # "none" THEN total ELSE total + f[e].size)
         ELSE IF f[e].kind = "dir"
              THEN SizeLoop(f, Tail(es), total + get_folder_size(f, e))
         ELSE SizeLoop(f, Tail(es), total)

get_folder_size(f, p) == SizeLoop(f, Scandir(f, p).entries, 0)

(***************************************************************************)
(* items.sort(key=lambda x: x["size"], reverse=True): list.sort is stable, *)
(* and with reverse=True it reverses the list, sorts it ascending and      *)
(* reverses it again.                                                      *)
(***************************************************************************)
Reverse(s) == [i \in 1..Len(s) |-> s[Len(s) + 1 - i]]

RECURSIVE InsertAsc(_, _)
InsertAsc(s, x) ==
    IF s = <<>> THEN <<x>>
    ELSE IF x.size < Head(s).size THEN <<x>> \o s
    ELSE <<Head(s)>> \o InsertAsc(Tail(s), x)

RECURSIVE StableSortAsc(_)
StableSortAsc(s) ==
    IF s = <<>> THEN <<>>
    ELSE InsertAsc(StableSortAsc(SubSeq(s, 1, Len(s) - 1)), s[Len(s)])

\* an ascending sort reversed: descending, but ties come out in reverse order
SortBySizeDescReversedTies(s) == Reverse(StableSortAsc(s))

SortBySizeDesc(s) == Reverse(StableSortAsc(Reverse(s)))

(***************************************************************************)
(* analyze_directory                                                       *)
(***************************************************************************)
Item(e, sz, isd, err) ==
    [name |-> Last(e), size |-> sz, is_dir |-> isd, path |-> e, error |-> err]

NoCause == [kind |-> "none", at |-> Root]

Returned(its) ==
    [status |-> "returned", exc |-> "none", path |-> Root, cause |-> NoCause,
     items |-> its, size |-> 0]

\* raise PermissionError(...) from e / raise OSError(...) from e
Raised(p, kind, at) ==
    [status |-> "raised",
     exc |-> IF kind = "perm" THEN "PermissionError" ELSE "OSError",
     path |-> p, cause |-> [kind |-> kind, at |-> at],
     items |-> <<>>, size |-> 0]

\* the body of the for loop, for one entry
EntryItem(f, e) ==
    IF f[e].kind = "dir" THEN Item(e, get_folder_size(f, e), TRUE, "none")
    ELSE IF f[e].statErr = "perm" THEN Item(e, 0, FALSE, "perm")
    ELSE IF f[e].statErr = "os" THEN Item(e, 0, FALSE, "os")
    ELSE Item(e, f[e].size, FALSE, "none")

RECURSIVE CollectLoop(_, _, _, _)
CollectLoop(f, p, es, its) ==
    IF es = <<>> THEN Returned(its)
    ELSE LET e == Head(es) IN
         IF f[e].typeErr # "none" THEN Raised(p, f[e].typeErr, e)
         ELSE CollectLoop(f, p, Tail(es), Append(its, EntryItem(f, e)))

\* a listing failure handled like a child failure: what was collected is returned
analyze_directory_partial(f, p) ==
    LET sc == Scandir(f, p)
        r == CollectLoop(f, p, sc.entries, <<>>)
    IN IF r.status = "raised" THEN r
       ELSE Returned(SortBySizeDesc(r.items))

analyze_directory(f, p) ==
    LET sc == Scandir(f, p)
        r == CollectLoop(f, p, sc.entries, <<>>)
    IN IF r.status = "raised" THEN r
       ELSE IF sc.err # "none" THEN Raised(p, sc.err, p)
       ELSE Returned(SortBySizeDesc(r.items))

(***************************************************************************)
(* The state machine of the engine: a tree is laid out under Root, then    *)
(* one call is made on it.                                                 *)
(***************************************************************************)
NoResult ==
    [status |-> "none", exc |-> "none", path |-> Root, cause |-> NoCause,
     items |-> <<>>, size |-> 0]

SizeResult(n) ==
    [status |-> "returned", exc |-> "none", path |-> Root, cause |-> NoCause,
     items |-> <<>>, size |-> n]

\* DiskAnalyzerApp.__init__, after populate_drives
GuiIdle ==
    /\ current_path = <<>>
    /\ path_history = <<>>
    /\ path_lineedit = <<>>
    /\ rows = <<>>
    /\ drive_index = 0
    /\ combo_enabled = TRUE
    /\ refresh_enabled = FALSE
    /\ up_enabled = FALSE
    /\ workers = <<>>

NoListing == [entries |-> <<>>, err |-> "none"]

ScanIdle ==
    /\ listing = NoListing
    /\ items = <<>>
    /\ stack = <<>>
    /\ observed = 0
    /\ envSteps = 0

Init ==
    /\ fs \in {(Root :> d) : d \in DirNodes}
    /\ pc = "build"
    /\ op = "none"
    /\ result = NoResult
    /\ ScanIdle
    /\ GuiIdle

Max(S) == CHOOSE m \in S : \A x \in S : x <= m

\* the first name after those in use in directory p
NextName(f, p) == Max({0} \cup {Last(q) : q \in Children(f, p)}) + 1

\* the tree gets one more entry, listed after its siblings
Create(parent, n) ==
    /\ pc = "build"
    /\ parent \in DOMAIN fs
    /\ fs[parent].kind = "dir"
    /\ fs[parent].typeErr = "none"
    /\ Cardinality(DOMAIN fs) - 1 < MaxNodes
    /\ fs' = fs @@ (Append(parent, NextName(fs, parent)) :> n)
    /\ UNCHANGED <<pc, op, result>>
    /\ UNCHANGED scanVars

    /\ UNCHANGED guiVars
AnalyzeCall ==
    /\ pc = "build"
    /\ pc' = "done"
    /\ op' = "analyze"
    /\ result' = analyze_directory(fs, Root)
    /\ UNCHANGED fs
    /\ UNCHANGED scanVars

    /\ UNCHANGED guiVars
SizeCall ==
    /\ pc = "build"
    /\ pc' = "done"
    /\ op' = "size"
    /\ result' = SizeResult(get_folder_size(fs, Root))
    /\ UNCHANGED fs
    /\ UNCHANGED scanVars

    /\ UNCHANGED guiVars
(***************************************************************************)
(* The analysis of flat directories: files of a few sizes, some of them    *)
(* unreadable, in every listing order.                                     *)
(***************************************************************************)
SortSizes == {0, 100, 300}

SortNodes == {FileNode(s, "none") : s \in SortSizes} \cup {FileNode(100, "perm")}

FlatTree(nodes) ==
    (Root :> DirNode("none", 0))
        @@ [q \in {<<i>> : i \in 1..Len(nodes)} |-> nodes[q[1]]]

InitSort ==
    /\ \E n \in 0..MaxSortLen : \E nodes \in [1..n -> SortNodes] : fs = FlatTree(nodes)
    /\ pc = "build"
    /\ op = "none"
    /\ result = NoResult
    /\ ScanIdle
    /\ GuiIdle

NextSort == AnalyzeCall

SpecSort == InitSort /\ [][NextSort]_vars

Next ==
    \/ \E parent \in DOMAIN fs, n \in Nodes : Create(parent, n)
    \/ AnalyzeCall
    \/ SizeCall

Spec == Init /\ [][Next]_vars

(***************************************************************************)
(* The same call, one system call at a time, while other processes modify  *)
(* the tree below Root.  A listing is read when the directory is opened    *)
(* and a DirEntry keeps the type the listing gave it; is_file()/is_dir()   *)
(* raise when the entry's type needs a system call that is denied; stat()  *)
(* reads the file as it is at that moment.                                 *)
(*   pc: "a_type"  analyze_directory, at entry.is_dir() of the next entry  *)
(*       "a_stat"  analyze_directory, at entry.stat()                      *)
(*       "g_open"  get_folder_size, at os.scandir of the top frame         *)
(*       "g_type"  get_folder_size, at entry.is_file() of the next entry   *)
(*       "g_stat"  get_folder_size, at entry.stat()                        *)
(***************************************************************************)
CleanNodes ==
    {FileNode(s, "none") : s \in 1..MaxSize} \cup {DirNode("none", 0), OtherNode}

DirEntries(f, es) == [i \in 1..Len(es) |-> [path |-> es[i], kind |-> f[es[i]].kind]]

\* os.scandir with the DirEntry objects it yields
ScandirEntries(f, p) ==
    LET sc == Scandir(f, p)
    IN [entries |-> DirEntries(f, sc.entries), err |-> sc.err]

Frame(p) == [path |-> p, entries |-> <<>>, total |-> 0]

\* what is_file()/is_dir() of entry e raises now
TypeErrNow(e) == IF e.path \in DOMAIN fs THEN fs[e.path].typeErr ELSE "none"

\* what stat() of entry e raises now; a vanished entry is a FileNotFoundError
StatErrNow(e) == IF e.path \in DOMAIN fs THEN fs[e.path].statErr ELSE "os"

InitScan ==
    /\ fs = (Root :> DirNode("none", 0))
    /\ pc = "build"
    /\ op = "none"
    /\ result = NoResult
    /\ ScanIdle
    /\ GuiIdle

\* analyze_directory: items = [] and the for statement opens the listing
ScanOpen ==
    /\ pc = "build"
    /\ op' = "analyze"
    /\ listing' = ScandirEntries(fs, Root)
    /\ pc' = "a_type"
    /\ UNCHANGED <<fs, result, items, stack, observed, envSteps>>

    /\ UNCHANGED guiVars
\* analyze_directory: is_dir = entry.is_dir()
ScanIsDir ==
    /\ pc = "a_type"
    /\ listing.entries # <<>>
    /\ LET e == Head(listing.entries) IN
       IF TypeErrNow(e) # "none"
       THEN /\ result' = Raised(Root, TypeErrNow(e), e.path)
            /\ pc' = "done"
            /\ UNCHANGED stack
       ELSE IF e.kind = "dir"
       THEN /\ stack' = <<Frame(e.path)>>
            /\ pc' = "g_open"
            /\ UNCHANGED result
       ELSE /\ pc' = "a_stat"
            /\ UNCHANGED <<result, stack>>
    /\ UNCHANGED <<fs, op, listing, items, observed, envSteps>>

    /\ UNCHANGED guiVars
\* analyze_directory: size = entry.stat().st_size, and items.append
ScanStat ==
    /\ pc = "a_stat"
    /\ LET e == Head(listing.entries) IN
       IF StatErrNow(e) # "none"
       THEN /\ items' = Append(items, Item(e.path, 0, FALSE, StatErrNow(e)))
            /\ UNCHANGED observed
       ELSE /\ items' = Append(items, Item(e.path, fs[e.path].size, FALSE, "none"))
            /\ observed' = observed + fs[e.path].size
    /\ listing' = [listing EXCEPT !.entries = Tail(@)]
    /\ pc' = "a_type"
    /\ UNCHANGED <<fs, op, result, stack, envSteps>>

    /\ UNCHANGED guiVars
\* get_folder_size: total_size = 0 and the for statement opens the listing
SizeOpen ==
    /\ pc = "g_open"
    /\ stack' = [stack EXCEPT ![Len(stack)].entries =
                                  ScandirEntries(fs, stack[Len(stack)].path).entries]
    /\ pc' = "g_type"
    /\ UNCHANGED <<fs, op, result, listing, items, observed, envSteps>>

    /\ UNCHANGED guiVars
\* get_folder_size: entry.is_file() / entry.is_dir()
SizeIsFile ==
    /\ pc = "g_type"
    /\ stack[Len(stack)].entries # <<>>
    /\ LET top == Len(stack)
           e == Head(stack[top].entries)
       IN IF TypeErrNow(e) # "none"
          THEN /\ stack' = [stack EXCEPT ![top].entries = <<>>]
               /\ pc' = "g_type"
          ELSE IF e.kind = "file"
          THEN /\ pc' = "g_stat"
               /\ UNCHANGED stack
          ELSE IF e.kind = "dir"
          THEN /\ stack' = Append(stack, Frame(e.path))
               /\ pc' = "g_open"
          ELSE /\ stack' = [stack EXCEPT ![top].entries = Tail(@)]
               /\ pc' = "g_type"
    /\ UNCHANGED <<fs, op, result, listing, items, observed, envSteps>>

    /\ UNCHANGED guiVars
\* get_folder_size: total_size += entry.stat().st_size
SizeStat ==
    /\ pc = "g_stat"
    /\ LET top == Len(stack)
           e == Head(stack[top].entries)
       IN IF StatErrNow(e) # "none"
          THEN /\ stack' = [stack EXCEPT ![top].entries = Tail(@)]
               /\ UNCHANGED observed
          ELSE /\ stack' = [stack EXCEPT ![top].entries = Tail(@),
                                         ![top].total = @ + fs[e.path].size]
               /\ observed' = observed + fs[e.path].size
    /\ pc' = "g_type"
    /\ UNCHANGED <<fs, op, result, listing, items, envSteps>>

    /\ UNCHANGED guiVars
\* get_folder_size: return total_size, to the frame below or to analyze_directory
SizeReturn ==
    /\ pc = "g_type"
    /\ stack[Len(stack)].entries = <<>>
    /\ LET top == Len(stack)
           total == stack[top].total
       IN IF top > 1
          THEN /\ stack' = [SubSeq(stack, 1, top - 1) EXCEPT
                                ![top - 1].entries = Tail(@),
                                ![top - 1].total = @ + total]
               /\ pc' = "g_type"
               /\ UNCHANGED <<listing, items>>
          ELSE /\ stack' = <<>>
               /\ items' = Append(items, Item(stack[top].path, total, TRUE, "none"))
               /\ listing' = [listing EXCEPT !.entries = Tail(@)]
               /\ pc' = "a_type"
    /\ UNCHANGED <<fs, op, result, observed, envSteps>>

    /\ UNCHANGED guiVars
\* analyze_directory: the listing ends or fails; items.sort and return
ScanReturn ==
    /\ pc = "a_type"
    /\ listing.entries = <<>>
    /\ result' = IF listing.err # "none" THEN Raised(Root, listing.err, Root)
                 ELSE Returned(SortBySizeDesc(items))
    /\ pc' = "done"
    /\ UNCHANGED <<fs, op, listing, items, stack, observed, envSteps>>

    /\ UNCHANGED guiVars
Scanning == pc \in {"a_type", "a_stat", "g_open", "g_type", "g_stat"}

\* another process removes a file or a directory with all it holds
EnvRemove(q) ==
    /\ Scanning
    /\ envSteps < MaxEnvSteps
    /\ q # Root
    /\ fs' = [x \in DOMAIN fs \ Under(fs, q) |-> fs[x]]
    /\ envSteps' = envSteps + 1
    /\ UNCHANGED <<pc, op, result, listing, items, stack, observed>>

    /\ UNCHANGED guiVars
\* another process adds an entry to a directory
EnvAdd(parent, n) ==
    /\ Scanning
    /\ envSteps < MaxEnvSteps
    /\ fs[parent].kind = "dir"
    /\ Cardinality(DOMAIN fs) - 1 < MaxNodes
    /\ fs' = fs @@ (Append(parent, NextName(fs, parent)) :> n)
    /\ envSteps' = envSteps + 1
    /\ UNCHANGED <<pc, op, result, listing, items, stack, observed>>

    /\ UNCHANGED guiVars
\* another process withdraws the permission to read a file or list a directory
EnvDeny(q) ==
    /\ Scanning
    /\ envSteps < MaxEnvSteps
    /\ q # Root
    /\ fs[q].kind \in {"file", "dir"}
    /\ fs[q].statErr = "none" /\ fs[q].listErr = "none"
    /\ fs' = [fs EXCEPT ![q] = IF @.kind = "dir" THEN [@ EXCEPT !.listErr = "perm"]
                                ELSE [@ EXCEPT !.statErr = "perm"]]
    /\ envSteps' = envSteps + 1
    /\ UNCHANGED <<pc, op, result, listing, items, stack, observed>>

    /\ UNCHANGED guiVars
\* another process makes the target of an entry whose type needs a system
\* call (a symbolic link) inaccessible
EnvDenyType(q) ==
    /\ Scanning
    /\ envSteps < MaxEnvSteps
    /\ q # Root
    /\ fs[q].typeErr = "none"
    /\ fs' = [fs EXCEPT ![q] = [@ EXCEPT !.typeErr = "perm", !.statErr = "perm"]]
    /\ envSteps' = envSteps + 1
    /\ UNCHANGED <<pc, op, result, listing, items, stack, observed>>

    /\ UNCHANGED guiVars
NextScan ==
    \/ \E parent \in DOMAIN fs, n \in CleanNodes : Create(parent, n)
    \/ ScanOpen
    \/ ScanIsDir
    \/ ScanStat
    \/ SizeOpen
    \/ SizeIsFile
    \/ SizeStat
    \/ SizeReturn
    \/ ScanReturn
    \/ \E q \in DOMAIN fs : EnvRemove(q)
    \/ \E parent \in DOMAIN fs, n \in CleanNodes : EnvAdd(parent, n)
    \/ \E q \in DOMAIN fs : EnvDeny(q)
    \/ \E q \in DOMAIN fs : EnvDenyType(q)

SpecScan == InitScan /\ [][NextScan]_vars

(***************************************************************************)
(* The window of disk_analyzer_gui.py.  Every handler runs to completion   *)
(* on the main thread; AnalysisWorker.run runs on its own thread and its   *)
(* signals are delivered to the main thread later.  The drives are the     *)
(* directories directly under Root, and "" is the empty path.              *)
(***************************************************************************)
callVars == <<pc, op, result, listing, items, stack, observed>>

\* the items of drive_combobox after "请选择驱动器…", from get_available_drives
Drives == << <<1>>, <<2>> >>

GuiTree ==
    (Root :> DirNode("none", 0))
        @@ (<<1>> :> DirNode("none", 0))
        @@ (<<1, 1>> :> DirNode("none", 0))
        @@ (<<1, 1, 1>> :> DirNode("none", 0))
        @@ (<<1, 2>> :> FileNode(1, "perm"))
        @@ (<<2>> :> DirNode("perm", 0))

\* os.path.normpath: "." and empty components (name 0) are dropped
Normpath(path) == SelectSeq(path, LAMBDA c : c # 0)

\* os.path.isdir: False for what does not exist or cannot be examined
IsDir(f, path) ==
    path \in DOMAIN f /\ f[path].kind = "dir" /\ f[path].typeErr = "none"

Worker(path) == [path |-> path, state |-> "started", items |-> <<>>]

\* one row of source_model; the name carries "(无法访问)" when has_error
Row(it) == [path |-> it.path, is_dir |-> it.is_dir, has_error |-> it.error # "none"]

\* navigate_to(path) called with path_history = hist: the window after it
navigate_to(path, hist) ==
    LET p == Normpath(path) IN
    IF ~IsDir(fs, p)
    THEN [current_path |-> current_path,
          path_lineedit |-> IF hist # <<>> THEN hist[Len(hist)] ELSE <<>>,
          rows |-> rows, combo |-> combo_enabled, refresh |-> refresh_enabled,
          up |-> up_enabled, workers |-> workers]
    ELSE [current_path |-> p, path_lineedit |-> p, rows |-> <<>>,
          combo |-> FALSE, refresh |-> FALSE, up |-> FALSE,
          workers |-> Append(workers, Worker(p))]

Navigated(nav) ==
    /\ current_path' = nav.current_path
    /\ path_lineedit' = nav.path_lineedit
    /\ rows' = nav.rows
    /\ combo_enabled' = nav.combo
    /\ refresh_enabled' = nav.refresh
    /\ workers' = nav.workers

\* set_controls_enabled(True)
ControlsEnabled ==
    /\ combo_enabled' = TRUE
    /\ refresh_enabled' = TRUE
    /\ up_enabled' = (Len(path_history) > 1)

InitGui ==
    /\ fs = GuiTree
    /\ pc = "gui"
    /\ op = "none"
    /\ result = NoResult
    /\ ScanIdle
    /\ GuiIdle

on_drive_selected(index) ==
    /\ pc = "gui"
    /\ combo_enabled
    /\ index # drive_index
    /\ Len(workers) < MaxWorkers
    /\ drive_index' = index
    /\ IF index = 0
       THEN /\ current_path' = <<>>
            /\ path_history' = <<>>
            /\ path_lineedit' = <<>>
            /\ rows' = <<>>
            /\ UNCHANGED <<combo_enabled, refresh_enabled, up_enabled, workers>>
       ELSE LET nav == navigate_to(Drives[index], <<Drives[index]>>) IN
            /\ path_history' = <<Drives[index]>>
            /\ Navigated(nav)
            /\ up_enabled' = nav.up
    /\ UNCHANGED <<fs, envSteps>>
    /\ UNCHANGED callVars

on_item_double_click(i) ==
    /\ pc = "gui"
    /\ i \in 1..Len(rows)
    /\ Len(workers) < MaxWorkers
    /\ IF rows[i].is_dir /\ ~rows[i].has_error /\ IsDir(fs, rows[i].path)
       THEN LET hist == Append(path_history, rows[i].path)
                nav == navigate_to(rows[i].path, hist)
            IN /\ path_history' = hist
               /\ Navigated(nav)
               /\ up_enabled' = nav.up
       ELSE UNCHANGED guiVars
    /\ UNCHANGED drive_index
    /\ UNCHANGED <<fs, envSteps>>
    /\ UNCHANGED callVars

go_up ==
    /\ pc = "gui"
    /\ up_enabled
    /\ Len(workers) < MaxWorkers
    /\ IF Len(path_history) > 1
       THEN LET hist == SubSeq(path_history, 1, Len(path_history) - 1)
                nav == navigate_to(hist[Len(hist)], hist)
            IN /\ path_history' = hist
               /\ Navigated(nav)
               /\ up_enabled' = (Len(hist) > 1)
       ELSE /\ up_enabled' = FALSE
            /\ UNCHANGED <<current_path, path_history, path_lineedit, rows,
                           combo_enabled, refresh_enabled, workers>>
    /\ UNCHANGED drive_index
    /\ UNCHANGED <<fs, envSteps>>
    /\ UNCHANGED callVars

refresh_view ==
    /\ pc = "gui"
    /\ refresh_enabled
    /\ Len(workers) < MaxWorkers
    /\ IF current_path # <<>>
       THEN LET nav == navigate_to(current_path, path_history) IN
            /\ Navigated(nav)
            /\ up_enabled' = nav.up
       ELSE UNCHANGED <<current_path, path_lineedit, rows, combo_enabled,
                        refresh_enabled, up_enabled, workers>>
    /\ UNCHANGED <<path_history, drive_index>>
    /\ UNCHANGED <<fs, envSteps>>
    /\ UNCHANGED callVars

\* AnalysisWorker.run, on the analysis thread
WorkerRun(w) ==
    /\ pc = "gui"
    /\ w \in 1..Len(workers)
    /\ workers[w].state = "started"
    /\ LET r == analyze_directory(fs, workers[w].path) IN
       workers' = [workers EXCEPT
                       ![w].state = IF r.status = "returned" THEN "finished"
                                    ELSE "error",
                       ![w].items = r.items]
    /\ UNCHANGED <<current_path, path_history, path_lineedit, rows, drive_index,
                   combo_enabled, refresh_enabled, up_enabled>>
    /\ UNCHANGED <<fs, envSteps>>
    /\ UNCHANGED callVars

\* the finished signal: update_treeview(items, path), then analysis_thread.quit
update_treeview(w) ==
    /\ pc = "gui"
    /\ w \in 1..Len(workers)
    /\ workers[w].state = "finished"
    /\ rows' = IF workers[w].path # current_path THEN rows
               ELSE [i \in 1..Len(workers[w].items) |-> Row(workers[w].items[i])]
    /\ workers' = [workers EXCEPT ![w].state = "quit"]
    /\ UNCHANGED <<current_path, path_history, path_lineedit, drive_index,
                   combo_enabled, refresh_enabled, up_enabled>>
    /\ UNCHANGED <<fs, envSteps>>
    /\ UNCHANGED callVars

\* the error signal: show_error(error_message, path), then analysis_thread.quit
show_error(w) ==
    /\ pc = "gui"
    /\ w \in 1..Len(workers)
    /\ workers[w].state = "error"
    /\ IF workers[w].path = current_path
       THEN ControlsEnabled
       ELSE UNCHANGED <<combo_enabled, refresh_enabled, up_enabled>>
    /\ workers' = [workers EXCEPT ![w].state = "quit"]
    /\ UNCHANGED <<current_path, path_history, path_lineedit, rows, drive_index>>
    /\ UNCHANGED <<fs, envSteps>>
    /\ UNCHANGED callVars

\* analysis_thread.finished: set_controls_enabled(True) and deleteLater
ThreadFinished(w) ==
    /\ pc = "gui"
    /\ w \in 1..Len(workers)
    /\ workers[w].state = "quit"
    /\ ControlsEnabled
    /\ workers' = SubSeq(workers, 1, w - 1) \o SubSeq(workers, w + 1, Len(workers))
    /\ UNCHANGED <<current_path, path_history, path_lineedit, rows, drive_index>>
    /\ UNCHANGED <<fs, envSteps>>
    /\ UNCHANGED callVars

\* a folder is deleted or a drive is removed while the window is open
FolderRemoved(q) ==
    /\ pc = "gui"
    /\ envSteps < MaxEnvSteps
    /\ q \in DOMAIN fs
    /\ q # Root
    /\ fs[q].kind = "dir"
    /\ fs' = [x \in DOMAIN fs \ Under(fs, q) |-> fs[x]]
    /\ envSteps' = envSteps + 1
    /\ UNCHANGED guiVars
    /\ UNCHANGED callVars

NextGui ==
    \/ \E index \in 0..Len(Drives) : on_drive_selected(index)
    \/ \E i \in 1..Len(rows) : on_item_double_click(i)
    \/ go_up
    \/ refresh_view
    \/ \E w \in 1..Len(workers) : WorkerRun(w)
    \/ \E w \in 1..Len(workers) : update_treeview(w)
    \/ \E w \in 1..Len(workers) : show_error(w)
    \/ \E w \in 1..Len(workers) : ThreadFinished(w)
    \/ \E q \in DOMAIN fs : FolderRemoved(q)

SpecGui == InitGui /\ [][NextGui]_vars

TypeOK ==
    /\ pc \in {"build", "done", "gui", "a_type", "a_stat", "g_open", "g_type", "g_stat"}
    /\ op \in {"none", "analyze", "size"}
    /\ result.status \in {"none", "returned", "raised"}
    /\ Len(workers) <= MaxWorkers
    /\ \A w \in 1..Len(workers) :
           workers[w].state \in {"started", "finished", "error", "quit"}

(***************************************************************************)
(* What is really on disk, independent of how the scan walks it.           *)
(***************************************************************************)
RECURSIVE SumOfSizes(_, _)
SumOfSizes(f, S) ==
    IF S = {} THEN 0
    ELSE LET q == CHOOSE x \in S : TRUE
         IN f[q].size + SumOfSizes(f, S \ {q})

\* total byte length of all files at or beneath p
TotalBytes(f, p) == SumOfSizes(f, {q \in Under(f, p) : f[q].kind = "file"})

\* nothing at or beneath p fails to list, to be typed or to be read
ErrorFree(f, p) ==
    \A q \in Under(f, p) :
        f[q].typeErr = "none" /\ f[q].statErr = "none" /\ f[q].listErr = "none"

Readable(f, q) == f[q].typeErr = "none" /\ f[q].statErr = "none"

DirectFileBytes(f, p) ==
    SumOfSizes(f, {q \in Children(f, p) : f[q].kind = "file"})

RECURSIVE SumOfFolderSizes(_, _)
SumOfFolderSizes(f, S) ==
    IF S = {} THEN 0
    ELSE LET q == CHOOSE x \in S : TRUE
         IN get_folder_size(f, q) + SumOfFolderSizes(f, S \ {q})

RECURSIVE SumOfTotals(_, _)
SumOfTotals(f, S) ==
    IF S = {} THEN 0
    ELSE LET q == CHOOSE x \in S : TRUE
         IN TotalBytes(f, q) + SumOfTotals(f, S \ {q})

SubDirs(f, p) == {q \in Children(f, p) : f[q].kind = "dir"}

\* the bytes of p's readable files and of its fully readable subdirectories
ReadableBytes(f, p) ==
    SumOfSizes(f, {q \in Children(f, p) : f[q].kind = "file" /\ Readable(f, q)})
        + SumOfTotals(f, {q \in SubDirs(f, p) : ErrorFree(f, q)})

ItemPaths(its) == {its[i].path : i \in 1..Len(its)}

ItemAt(its, q) == its[CHOOSE i \in 1..Len(its) : its[i].path = q]

TopListable == fs[Root].listErr = "none"

TopTypable == \A c \in Children(fs, Root) : fs[c].typeErr = "none"

\* the entries the top-level listing yields before it ends or fails
TopYielded == Scandir(fs, Root).entries

(***************************************************************************)
(* C1. Partial-failure isolation: when the analysed directory lists and    *)
(* types all its children, and among them are a directory A whose listing  *)
(* is denied and a fully readable directory B, analyze_directory returns   *)
(* an entry for both; B's size is the exact sum of the file sizes beneath  *)
(* B, and A's entry has the access error set and size 0.                   *)
(***************************************************************************)
PartialFailureIsolation ==
    (op = "analyze" /\ TopListable /\ TopTypable) =>
        \A A, B \in Children(fs, Root) :
            ( /\ A # B
              /\ fs[A].kind = "dir" /\ fs[A].listErr = "perm" /\ fs[A].failAt = 0
              /\ fs[B].kind = "dir" /\ ErrorFree(fs, B) )
            => /\ result.status = "returned"
               /\ {A, B} \subseteq ItemPaths(result.items)
               /\ ItemAt(result.items, B).size = TotalBytes(fs, B)
               /\ ItemAt(result.items, A).error # "none"
               /\ ItemAt(result.items, A).size = 0

(***************************************************************************)
(* C2. Every entry that could not be fully measured is marked: an entry    *)
(* without an access error has the full sum of the file sizes of its       *)
(* subtree (or the file's own size); a directory with a failing listing,   *)
(* an unreadable file or an untypable entry at any depth has the access    *)
(* error set; an empty readable directory has size 0 and no error.         *)
(***************************************************************************)
UnmeasuredEntriesMarked ==
    (op = "analyze" /\ result.status = "returned") =>
        \A i \in 1..Len(result.items) :
            LET it == result.items[i] IN
            /\ it.error = "none" =>
                   it.size = IF it.is_dir THEN TotalBytes(fs, it.path)
                             ELSE fs[it.path].size
            /\ (it.is_dir /\ ~ErrorFree(fs, it.path)) => it.error # "none"
            /\ (it.is_dir /\ ErrorFree(fs, it.path) /\ Children(fs, it.path) = {})
                   => (it.size = 0 /\ it.error = "none")

(***************************************************************************)
(* C3. Entries are never dropped and child failures never propagate: when  *)
(* the top-level directory can be listed, analyze_directory returns with   *)
(* exactly one entry per immediate child; it fails as a whole only when    *)
(* the top-level directory itself cannot be listed.                        *)
(***************************************************************************)
EntriesNeverDropped ==
    op = "analyze" =>
        /\ TopListable =>
               /\ result.status = "returned"
               /\ Len(result.items) = Cardinality(Children(fs, Root))
               /\ ItemPaths(result.items) = Children(fs, Root)
        /\ result.status = "raised" => ~TopListable

(***************************************************************************)
(* C4. Top-level failure: when the analysed directory cannot be listed,    *)
(* on opening it or partway through the listing, the call fails with an    *)
(* error that carries the path and the underlying cause (the error of the  *)
(* listing, unless typing an entry yielded earlier has already failed),    *)
(* and never returns an empty or partial list.                             *)
(***************************************************************************)
TopLevelFailure ==
    (op = "analyze" /\ ~TopListable) =>
        /\ result.status = "raised"
        /\ result.items = <<>>
        /\ result.path = Root
        /\ result.cause.kind \in ErrKinds
        /\ result.exc = IF result.cause.kind = "perm" THEN "PermissionError"
                        ELSE "OSError"
        /\ (\A i \in 1..Len(TopYielded) : fs[TopYielded[i]].typeErr = "none")
               => result.cause = [kind |-> fs[Root].listErr, at |-> Root]

\* a listing that fails after it has yielded an entry, with more to come
TopLevelFailureWitness ==
    /\ op = "analyze"
    /\ fs[Root].listErr = "perm"
    /\ fs[Root].failAt = 1
    /\ Cardinality(Children(fs, Root)) >= 2
    /\ fs[<<1>>].kind = "file" /\ Readable(fs, <<1>>)
    /\ result.status = "raised"

(***************************************************************************)
(* C6. Recursive sum: for an error-free tree, get_folder_size(root) is the *)
(* sum of the sizes of the files directly in root plus the sum of          *)
(* get_folder_size over root's immediate subdirectories, which is the      *)
(* total byte length of all files beneath root; entries that are neither   *)
(* file nor directory contribute 0.                                        *)
(***************************************************************************)
RecursiveSum ==
    (op = "size" /\ ErrorFree(fs, Root)) =>
        /\ result.status = "returned"
        /\ result.size = DirectFileBytes(fs, Root)
                             + SumOfFolderSizes(fs, SubDirs(fs, Root))
        /\ result.size = TotalBytes(fs, Root)

\* a file two directories below the directory that is measured
RecursiveSumWitness ==
    /\ op = "size"
    /\ ErrorFree(fs, Root)
    /\ \E q \in DOMAIN fs : Len(q) = 3 /\ fs[q].kind = "file" /\ result.size = fs[q].size
    /\ result.size > 0

(***************************************************************************)
(* C8. A sibling scan is never aborted: for a directory that can be        *)
(* listed, the total of get_folder_size includes the size of every         *)
(* readable file and of every readable subdirectory in it, whichever other *)
(* entries fail and at whichever step.                                     *)
(***************************************************************************)
SiblingScanNeverAborted ==
    (op = "size" /\ TopListable) => result.size >= ReadableBytes(fs, Root)

(***************************************************************************)
(* C9. When a directory cannot be listed (on opening it or while it is     *)
(* iterated), get_folder_size returns a zero contribution with the error   *)
(* flagged and raises nothing: the direct call returns 0, and the entry    *)
(* analyze_directory builds for such a directory has size 0 and the        *)
(* access error set.                                                       *)
(***************************************************************************)
UnlistableDirZeroFlagged ==
    /\ (op = "size" /\ ~TopListable) =>
           (result.status = "returned" /\ result.size = 0)
    /\ (op = "analyze" /\ result.status = "returned") =>
           \A i \in 1..Len(result.items) :
               LET it == result.items[i] IN
               (it.is_dir /\ fs[it.path].listErr # "none")
                   => (it.size = 0 /\ it.error # "none")

(***************************************************************************)
(* C5. The list analyze_directory returns is a permutation of the          *)
(* collected entries, ordered by size descending, and entries of equal     *)
(* size keep their listing order: sizes listed as [300, 100, 300, 0] come  *)
(* back as [300, 300, 100, 0], the first-listed 300 first.                 *)
(***************************************************************************)
Collected == CollectLoop(fs, Root, TopYielded, <<>>).items

Pos(s, x) == CHOOSE k \in 1..Len(s) : s[k] = x

SizesOf(s) == [i \in 1..Len(s) |-> s[i].size]

SortedDescStable ==
    (op = "analyze" /\ result.status = "returned") =>
        LET out == result.items IN
        /\ Len(out) = Len(Collected)
        /\ \A i \in 1..Len(Collected) : \E j \in 1..Len(out) : out[j] = Collected[i]
        /\ \A i \in 1..Len(out) - 1 : out[i].size >= out[i + 1].size
        /\ \A i, j \in 1..Len(out) :
               (i < j /\ out[i].size = out[j].size)
                   => Pos(Collected, out[i]) < Pos(Collected, out[j])
        /\ SizesOf(Collected) = <<300, 100, 300, 0>>
               => [i \in 1..4 |-> out[i].path] = << <<1>>, <<3>>, <<2>>, <<4>> >>

SortedDescStableWitness ==
    /\ op = "analyze"
    /\ result.status = "returned"
    /\ SizesOf(Collected) = <<300, 100, 300, 0>>
    /\ SizesOf(result.items) = <<300, 300, 100, 0>>
    /\ result.items[1].path = <<1>>

(***************************************************************************)
(* C7. Under any interleaving of modifications below the top level with    *)
(* the steps of one analyze_directory call, the call does not fail and     *)
(* every reported size is a non-negative integer no larger than the sum of *)
(* the file sizes observed during the scan.                                *)
(***************************************************************************)
ScanToleratesModification ==
    pc = "done" =>
        /\ result.status = "returned"
        /\ \A i \in 1..Len(result.items) :
               /\ result.items[i].size \in Nat
               /\ result.items[i].size <= observed

\* without modifications, the steps compute what the call computes
StepsAgreeWithCall ==
    (pc = "done" /\ envSteps = 0) => result = analyze_directory(fs, Root)

\* once typing an entry cannot fail, the scan returns whatever is modified
ScanReturnsIfTypable ==
    (pc = "done" /\ \A q \in DOMAIN fs : fs[q].typeErr = "none") =>
        /\ result.status = "returned"
        /\ \A i \in 1..Len(result.items) :
               /\ result.items[i].size \in Nat
               /\ result.items[i].size <= observed

(***************************************************************************)
(* C10. After any sequence of drive selections, folder double-clicks, Up   *)
(* and Refresh actions, rejected navigations and failed analyses included, *)
(* whenever current_path is non-empty the last element of path_history is  *)
(* current_path.                                                           *)
(***************************************************************************)
HistoryEndsAtCurrentPath ==
    current_path # <<>> =>
        (path_history # <<>> /\ path_history[Len(path_history)] = current_path)

\* as long as no navigation has been rejected, the history ends at the
\* directory shown
HistoryEndsAtCurrentPathUnlessRejected ==
    (current_path # <<>> /\ envSteps = 0) =>
        (path_history # <<>> /\ path_history[Len(path_history)] = current_path)

(***************************************************************************)
(* C11. At most one analysis is in flight at any time: from the moment     *)
(* navigate_to starts a worker thread until that thread has finished, no   *)
(* user action (drive selection, Up, Refresh, double-click on a listed     *)
(* folder) starts a second analysis or replaces the running thread object, *)
(* on the finished path and on the error path alike.                       *)
(***************************************************************************)
AtMostOneAnalysisInFlight == Len(workers) <= 1

\* the threads whose AnalysisWorker.run has not returned yet
Analysing == {w \in 1..Len(workers) : workers[w].state = "started"}

\* not even two calls of analyze_directory are outstanding at the same time
AtMostOneAnalysisRunning == Cardinality(Analysing) <= 1

\* the other half of C11, as far as one step shows it: when a thread ends,
\* the drive box and the refresh button are enabled
ControlsEnabledWhenThreadEnds ==
    [][Len(workers') < Len(workers) => (combo_enabled' /\ refresh_enabled')]_vars

\* go_up enables the Up button again after navigate_to has started a thread
UpDisabledWhileStarting ==
    [][(Len(workers') > Len(workers) /\ Len(path_history') < Len(path_history)
            /\ path_history' # <<>>) => ~up_enabled']_vars
=============================================================================
